---- MODULE Spec2Model ----
(***************************************************************************)
(* Model of src/src/utils/decoders.ts: the decoding of a scanned QR code   *)
(* (rawDataToU8A) and the interpretation of its bytes as a UOS signing     *)
(* request (constructDataFromBytes).                                       *)
(*                                                                         *)
(* A JavaScript string is a sequence of characters, a character being its  *)
(* value as a base-36 digit: '0'..'9' are 0..9, 'a'..'z' are 10..35, so    *)
(* that 'c' = 12, 'e' = 14 and 'x' = 33.  A byte is a number in 0..255.    *)
(* A JavaScript value stored in a field is a tagged tuple.                 *)
(***************************************************************************)
EXTENDS Integers, Sequences, FiniteSets, TLC

VARIABLES
    device,             \* what the signing device encoded into the QR code
    rawData,            \* the scanned string handed to rawDataToU8A
    multipartComplete,  \* the flag handed to constructDataFromBytes
    networks,           \* the genesis hash -> network parameters table
    pc,                 \* where the decode of this scan stands
    bytes,              \* what rawDataToU8A returned
    data,               \* the object constructDataFromBytes builds / returns
    error,              \* the message of the Error thrown to the caller
    console,            \* what was written to the console
    blake2bCalls        \* the number of calls of the hashing primitive

vars == <<device, rawData, multipartComplete, networks, pc, bytes, data,
          error, console, blake2bCalls>>

\* ------------------------------------------------------------ bounds

\* The filler 'ec11' is repeated 0..MaxFiller times.
MaxFiller == 2
\* An Ethereum payload carries 0..MaxEthData bytes after its address.
MaxEthData == 2

\* ------------------------------------------------- JavaScript values

Undefined == <<"undefined">>
Null == <<"null">>
Str(s) == <<"string", s>>
Sym(s) == <<"literal", s>>
Num(n) == <<"number", n>>
Bool(b) == <<"boolean", b>>
U8a(b) == <<"Uint8Array", b>>

\* parseInt's not-a-number result.
NaN == -1

Min(a, b) == IF a < b THEN a ELSE b
Max(a, b) == IF a > b THEN a ELSE b

\* a > b on numbers: false as soon as one side is NaN.
JsGt(a, b) == a # NaN /\ b # NaN /\ a > b

\* String.prototype.substr(start, length) and substr(start).
Substr(s, start, length) ==
    LET size == Len(s)
        from == IF start < 0 THEN Max(size + start, 0) ELSE Min(start, size)
        n == Min(Max(length, 0), size - from)
    IN  SubSeq(s, from + 1, from + n)

SubstrFrom(s, start) == Substr(s, start, Len(s))

\* String.prototype.slice(start, end) and slice(start); the same index
\* arithmetic serves Uint8Array.prototype.slice and subarray.
Slice(s, start, end) ==
    LET size == Len(s)
        from == IF start < 0 THEN Max(size + start, 0) ELSE Min(start, size)
        to == IF end < 0 THEN Max(size + end, 0) ELSE Min(end, size)
    IN  SubSeq(s, from + 1, to)

SliceFrom(s, start) == Slice(s, start, Len(s))

\* s[i]: the character at index i, undefined past the end.
CharAt(s, i) == IF i < Len(s) THEN Str(<<s[i + 1]>>) ELSE Undefined

\* The number of leading characters of s that are digits in the radix.
RECURSIVE DigitPrefix(_, _)
DigitPrefix(s, radix) ==
    IF s = <<>> \/ s[1] >= radix THEN 0 ELSE 1 + DigitPrefix(Tail(s), radix)

RECURSIVE DigitsValue(_, _)
DigitsValue(s, radix) ==
    IF s = <<>> THEN 0
    ELSE DigitsValue(SubSeq(s, 1, Len(s) - 1), radix) * radix + s[Len(s)]

\* parseInt(s, radix): the value of the longest prefix of digits, NaN if none.
parseInt(s, radix) ==
    LET n == DigitPrefix(s, radix)
    IN  IF n = 0 THEN NaN ELSE DigitsValue(SubSeq(s, 1, n), radix)

\* x || 0 on a number.
OrZero(x) == IF x = NaN THEN 0 ELSE x

\* ------------------------------------------------ @polkadot/util as used

HexDigits(b) ==
    [i \in 1..(2 * Len(b)) |->
        IF i % 2 = 1 THEN b[(i + 1) \div 2] \div 16 ELSE b[i \div 2] % 16]

\* u8aToHex(b): '0x' and two digits per byte; u8aToHex(b, -1, false): no '0x'.
u8aToHex(b) == <<0, 33>> \o HexDigits(b)
u8aToHexNoPrefix(b) == HexDigits(b)

hasPrefix(s) == Len(s) >= 2 /\ s[1] = 0 /\ s[2] = 33

\* isHex(s): '0x', then an even number of hexadecimal digits.
isHex(s) ==
    /\ hasPrefix(s)
    /\ Len(s) % 2 = 0
    /\ \A i \in 3..Len(s) : s[i] < 16

hexStripPrefix(s) == IF hasPrefix(s) THEN SubstrFrom(s, 2) ELSE s

\* hexToU8a(s): <<"ok", bytes>>, or <<"throw">> when s is not hexadecimal.
hexToU8a(s) ==
    IF s = <<>> THEN <<"ok", <<>>>>
    ELSE IF ~isHex(s) THEN <<"throw">>
    ELSE LET h == hexStripPrefix(s)
         IN  <<"ok", [i \in 1..(Len(h) \div 2) |-> h[2 * i - 1] * 16 + h[2 * i]]>>

\* The first element of compactFromU8a(u8a): the width of the SCALE compact
\* length prefix that u8a starts with (a missing first byte reads as 0).
compactOffset(u8a) ==
    LET first == IF Len(u8a) = 0 THEN 0 ELSE u8a[1]
        flag == first % 4
    IN  IF flag = 0 THEN 1
        ELSE IF flag = 1 THEN 2
        ELSE IF flag = 2 THEN 4
        ELSE (first \div 4) + 5

\* encodeAddress(key, prefix): an opaque address, or a throw on a key of a
\* length that is no public key's.
encodeAddress(key, prefix) ==
    IF Len(key) \in {1, 2, 4, 8, 32, 33}
    THEN <<"ok", <<"address", key, prefix>>>>
    ELSE <<"throw">>

\* blake2b(hex): the opaque hash the native primitive resolves to.
blake2b(hex) == <<"blake2b", hex>>

\* ------------------------------------------------------- rawDataToU8A

\* while (rawData.substr(-4) === 'ec11') rawData = rawData.substr(0, length - 4)
RECURSIVE StripEc11(_)
\* Mutant of StripEc11: the loop written as an if.
StripEc11Once(s) ==
    IF Substr(s, -4, 4) = <<14, 12, 1, 1>> THEN Substr(s, 0, Len(s) - 4) ELSE s

StripEc11(s) ==
    IF Substr(s, -4, 4) = <<14, 12, 1, 1>>
    THEN StripEc11(Substr(s, 0, Len(s) - 4))
    ELSE s

\* The filler bytes stripped from the end of the scanned string.
StripFiller(s) ==
    StripEc11(IF Substr(s, -2, 2) = <<14, 12>> THEN Substr(s, 0, Len(s) - 2) ELSE s)

\* The accepted length prefix of s (the string between indicator and
\* terminator): [width, length], width 0 when neither interpretation fits.
LengthPrefix(s) ==
    LET length8 == OrZero(parseInt(Substr(s, 0, 2), 16))
        length16 == OrZero(parseInt(Substr(s, 0, 4), 16))
    IN  IF length8 * 2 + 2 = Len(s) THEN [width |-> 2, length |-> length8]
        ELSE IF length16 * 2 + 4 = Len(s) THEN [width |-> 4, length |-> length16]
        ELSE [width |-> 0, length |-> 0]

\* bytes[i] = parseInt(...): a Uint8Array element stores NaN as 0.
ToUint8(x) == IF x = NaN THEN 0 ELSE x % 256

\* rawDataToU8A(raw): <<"null">>, or <<"Uint8Array", bytes>>.
rawDataToU8A(raw) ==
    IF raw = <<>> THEN Null
    ELSE LET stripped == StripFiller(raw)
         IN  IF Substr(stripped, 0, 1) # <<4>> \/ Substr(stripped, -1, 1) # <<0>>
             THEN Null
             ELSE LET body == Substr(stripped, 1, Len(stripped) - 2)
                      prefix == LengthPrefix(body)
                      rest == SubstrFrom(body, prefix.width)
                  IN  IF prefix.width = 0 THEN Null
                      ELSE U8a([i \in 1..prefix.length |->
                               ToUint8(parseInt(Substr(rest, (i - 1) * 2, 2), 16))])

\* --------------------------------------------- constructDataFromBytes

EMPTY_DATA ==
    [type |-> "none", currentFrame |-> Undefined, frameCount |-> Undefined,
     isMultipart |-> Undefined, partData |-> Undefined, action |-> Undefined,
     oversized |-> Undefined, isHash |-> Undefined, crypto |-> Undefined,
     account |-> Undefined, rlp |-> Undefined, data |-> Undefined,
     rawPayload |-> Undefined, specVersion |-> Undefined,
     genesisHash |-> Undefined]

\* The messages of the errors thrown.
ERROR_WRONG_RAW == "strings.ERROR_WRONG_RAW"
ERROR_NO_NETWORK == "strings.ERROR_NO_NETWORK"
ERROR_NO_ACTION == "Could not determine action type."
ERROR_SUBSTRATE == "Something went wrong decoding the Substrate UOS payload: "
ERROR_FORMAT == "Payload is not formated correctly: "
NO_MESSAGE == ""

frameInfo(b) == hexStripPrefix(u8aToHex(Slice(b, 0, 5)))
frameCount(b) == parseInt(Substr(frameInfo(b), 2, 4), 16)
currentFrame(b) == parseInt(Substr(frameInfo(b), 6, 4), 16)
uosAfterFrames(b) == hexStripPrefix(u8aToHex(SliceFrom(b, 5)))

\* Mutant of isMultipart: frameCount > 0.
isMultipartLoose(b) == JsGt(frameCount(b), 0)

\* const isMultipart = frameCount > 1
isMultipart(b) == JsGt(frameCount(b), 1)

\* Mutant of tooManyFrames: the ceiling tested on the frame index.
tooManyFramesByIndex(b) == JsGt(currentFrame(b), 50)

\* if (frameCount > 50) throw
tooManyFrames(b) == JsGt(frameCount(b), 50)

zerothByte(uos) == Substr(uos, 0, 2)
firstByte(uos) == Substr(uos, 2, 2)
secondByte(uos) == Substr(uos, 4, 2)

CRYPTO_ED25519 == <<0, 0>>
CRYPTO_SR25519 == <<0, 1>>
CMD_SIGN_MORTAL == <<0, 0>>
CMD_SIGN_HASH == <<0, 1>>
CMD_SIGN_IMMORTAL == <<0, 2>>
CMD_SIGN_MSG == <<0, 3>>

\* What a run of the function's body comes to: a return, a throw, or the
\* await of blake2b; with the object built so far and the console lines.
Outcome(to, d, msg, logged) ==
    [pc |-> to, data |-> d, error |-> msg, console |-> logged]

\* The SubstrateMultiParsedData of a frame of an incomplete multipart payload.
PartData(b) ==
    [EMPTY_DATA EXCEPT !.type = "multipart",
                       !.currentFrame = Num(currentFrame(b)),
                       !.frameCount = Num(frameCount(b)),
                       !.isMultipart = Bool(isMultipart(b)),
                       !.partData = Str(uosAfterFrames(b))]

\* Mutant of ethereumAction: '01' selects signTransaction.
ethereumActionSplit(first) ==
    IF first = <<0, 0>> THEN Sym("signData")
    ELSE IF first = <<0, 1>> THEN Sym("signTransaction")
    ELSE Null

\* firstByte === '00' || firstByte === '01' ? 'signData'
\*     : firstByte === '01' ? 'signTransaction' : null
ethereumAction(first) ==
    IF first = <<0, 0>> \/ first = <<0, 1>> THEN Sym("signData")
    ELSE IF first = <<0, 1>> THEN Sym("signTransaction")
    ELSE Null

\* case '45'
EthereumCase(uos) ==
    LET action == ethereumAction(firstByte(uos))
        d0 == [EMPTY_DATA EXCEPT !.type = "ethereum",
                                 !.action = action,
                                 !.account = Str(Substr(uos, 4, 44))]
    IN  IF action = Sym("signData")
        THEN Outcome("returned", [d0 EXCEPT !.rlp = CharAt(uos, 13)], NO_MESSAGE, <<>>)
        ELSE IF action = Sym("signTransaction")
        THEN Outcome("returned", [d0 EXCEPT !.data = CharAt(uos, 13)], NO_MESSAGE, <<>>)
        ELSE Outcome("thrown", EMPTY_DATA, NO_MESSAGE, <<ERROR_NO_ACTION>>)

\* The locals of case '53'.
substrateCrypto(first) ==
    IF first = CRYPTO_ED25519 THEN Sym("ed25519")
    ELSE IF first = CRYPTO_SR25519 THEN Sym("sr25519")
    ELSE Null
pubKeyHex(uos) == Substr(uos, 6, 64)
publicKeyAsBytes(uos) == hexToU8a(<<0, 33>> \o pubKeyHex(uos))
hexEncodedData(uos) == <<0, 33>> \o SliceFrom(uos, 70)
hexPayload(uos) == Slice(hexEncodedData(uos), 0, -64)
specVersion(uos) == parseInt(Substr(hexEncodedData(uos), -70, -64), 10)
genesisHash(uos) == <<0, 33>> \o SubstrFrom(hexEncodedData(uos), -64)
rawPayload(uos) == hexToU8a(hexPayload(uos))
isOversized(raw) == Len(raw) > 256
\* rawPayload.subarray(offset)
payloadAfterCompact(raw) == SliceFrom(raw, compactOffset(raw))

\* networks.get(genesisHash), and whether it is defined.
hasNetwork(nets, hash) == hash \in DOMAIN nets
networkOf(nets, hash) == nets[hash]

\* The inner catch: whatever was thrown is logged, and one message is thrown.
SubstrateCatch(logged, thrown) ==
    Outcome("thrown", EMPTY_DATA, ERROR_SUBSTRATE, logged \o <<thrown>>)

\* case '53', up to its return, its throw or its await of blake2b.
SubstrateCase(uos, nets) ==
    LET key == publicKeyAsBytes(uos)
        raw == rawPayload(uos)
        network == networkOf(nets, genesisHash(uos))
        second == secondByte(uos)
        d0 == [EMPTY_DATA EXCEPT !.type = "substrate",
                                 !.crypto = substrateCrypto(firstByte(uos)),
                                 !.specVersion = Num(specVersion(uos)),
                                 !.genesisHash = Str(genesisHash(uos))]
    IN  IF key[1] = "throw" \/ raw[1] = "throw"
        THEN SubstrateCatch(<<>>, "Expected hex value to convert")
        ELSE IF ~hasNetwork(nets, genesisHash(uos))
        THEN SubstrateCatch(<<ERROR_NO_NETWORK>>, NO_MESSAGE)
        ELSE IF second = CMD_SIGN_MORTAL \/ second = CMD_SIGN_IMMORTAL
        THEN LET d1 == [d0 EXCEPT !.action = Sym("signTransaction"),
                                  !.oversized = Bool(isOversized(raw[2])),
                                  !.isHash = Bool(isOversized(raw[2])),
                                  !.rawPayload = U8a(raw[2])]
                 address == encodeAddress(key[2], network.prefix)
             IN  IF isOversized(raw[2])
                 THEN Outcome("awaitBlake2b", d1, NO_MESSAGE, <<>>)
                 ELSE IF address[1] = "throw"
                 THEN SubstrateCatch(<<>>, "Expected a valid key to convert")
                 ELSE Outcome("returned",
                              [d1 EXCEPT !.data = U8a(raw[2]),
                                         !.account = address[2]],
                              NO_MESSAGE, <<>>)
        ELSE IF second = CMD_SIGN_HASH \/ second = CMD_SIGN_MSG
        THEN LET address == encodeAddress(key[2], network.prefix)
             IN  IF address[1] = "throw"
                 THEN SubstrateCatch(<<>>, "Expected a valid key to convert")
                 ELSE Outcome("returned",
                              [d0 EXCEPT !.action = Sym("signData"),
                                         !.oversized = Bool(FALSE),
                                         !.isHash = Bool(second = CMD_SIGN_HASH),
                                         !.data = Str(hexPayload(uos)),
                                         !.account = address[2]],
                              NO_MESSAGE, <<>>)
        ELSE Outcome("returned", d0, NO_MESSAGE, <<>>)

\* case '53', from the resolution of blake2b to the return.
SubstrateAfterHash(uos, nets, d, hash) ==
    LET key == publicKeyAsBytes(uos)
        network == networkOf(nets, genesisHash(uos))
        address == encodeAddress(key[2], network.prefix)
    IN  IF address[1] = "throw"
        THEN SubstrateCatch(<<>>, "Expected a valid key to convert")
        ELSE Outcome("returned",
                     [d EXCEPT !.data = hash, !.account = address[2]],
                     NO_MESSAGE, <<>>)

\* constructDataFromBytes(b, complete, nets), up to its first await.
Construct(b, complete, nets) ==
    IF tooManyFrames(b)
    THEN Outcome("thrown", EMPTY_DATA, ERROR_WRONG_RAW, <<>>)
    ELSE IF isMultipart(b) /\ ~complete
    THEN Outcome("returned", PartData(b), NO_MESSAGE, <<>>)
    ELSE LET uos == uosAfterFrames(b)
         IN  IF zerothByte(uos) = <<4, 5>> THEN EthereumCase(uos)
             ELSE IF zerothByte(uos) = <<5, 3>> THEN SubstrateCase(uos, nets)
             ELSE Outcome("thrown", EMPTY_DATA, ERROR_FORMAT, <<>>)

\* ----------------------------------------------------------- encodeNumber

\* new Uint8Array([value >> 8, value & 0xff])
encodeNumber(value) == <<(value \div 256) % 256, value % 256>>

\* -------------------------------------------------- the signing device

\* n bytes that differ from place to place and from seed to seed.
Pattern(n, seed) == [i \in 1..n |-> (seed + 37 * i) % 256]

\* The frame header: a reserved byte, the frame count, the frame's index.
Header(count, index) == <<0>> \o encodeNumber(count) \o encodeNumber(index)

\* An Ethereum payload: '45', the action, a 22-byte address, n bytes.
EthBody(action, n) == <<69, action>> \o Pattern(22, 3) \o Pattern(n, 90)

PublicKey == Pattern(32, 11)
Genesis(g) == Pattern(32, g)
SpecVersionBytes == <<26, 4, 0, 0>>

\* A signing payload of n bytes that starts with the byte first.
SigningPayload(first, n) == IF n = 0 THEN <<>> ELSE <<first>> \o Pattern(n - 1, 5)

\* A Substrate payload: '53', crypto, command, public key, signing payload,
\* specVersion, genesis hash.
SubBody(crypto, cmd, first, n, g) ==
    <<83, crypto, cmd>> \o PublicKey \o SigningPayload(first, n)
        \o SpecVersionBytes \o Genesis(g)

\* The networks the application knows: those of genesis hashes 1 and 2.
NetworkTable ==
    [h \in {u8aToHex(Genesis(1)), u8aToHex(Genesis(2))} |->
        [prefix |-> IF h = u8aToHex(Genesis(1)) THEN 0 ELSE 2]]

\* The filler that pads the QR code: 'ec11' fill times, then 'ec' or nothing.
RECURSIVE Ec11(_)
Ec11(fill) == IF fill = 0 THEN <<>> ELSE <<14, 12, 1, 1>> \o Ec11(fill - 1)
Filler(fill, tail) == Ec11(fill) \o (IF tail THEN <<14, 12>> ELSE <<>>)

\* The length prefix: one byte when the length fits, else two, big-endian.
LengthDigits(n) == IF n < 256 THEN HexDigits(<<n>>) ELSE HexDigits(encodeNumber(n))

\* The QR code of the bytes b: '4', the length, the bytes, '0', the filler.
Encode(b, fill, tail) ==
    <<4>> \o LengthDigits(Len(b)) \o HexDigits(b) \o <<0>> \o Filler(fill, tail)

\* What the camera hands over: the QR code, or a damaged reading of it.
Scan(b, fill, tail, damage) ==
    IF damage = "none" THEN Encode(b, fill, tail)
    ELSE IF damage = "empty" THEN <<>>
    ELSE IF damage = "indicator"
    THEN <<2>> \o LengthDigits(Len(b)) \o HexDigits(b) \o <<0>> \o Filler(fill, tail)
    ELSE IF damage = "terminator"
    THEN <<4>> \o LengthDigits(Len(b)) \o HexDigits(b) \o Filler(fill, tail)
    ELSE <<4>> \o LengthDigits(Len(b) + 1) \o HexDigits(b) \o <<0>> \o Filler(fill, tail)

SmallBodies == {<<>>, <<153>>, EthBody(0, 1), SubBody(1, 0, 16, 5, 1)}

FramePayloads ==
    {Header(count, index) \o body :
        count \in {0, 1, 2, 50, 51, 300}, index \in {0, 1, 7}, body \in SmallBodies}

EthPayloads ==
    {Header(1, 0) \o EthBody(action, n) : action \in {0, 1, 2, 69}, n \in 0..MaxEthData}

SubPayloads ==
    {Header(1, 0) \o SubBody(crypto, cmd, first, n, g) :
        crypto \in {0, 1, 2}, cmd \in 0..4, first \in {16, 17, 18, 3},
        n \in {0, 1, 6, 252, 253, 256, 257}, g \in {1, 3}}

ShortPayloads ==
    {<<>>, <<0>>, <<0, 0, 2>>, Header(1, 0) \o <<83>>,
     Header(1, 0) \o <<83, 1, 0>> \o Pattern(40, 9),
     Header(1, 0) \o <<69>>,
     Header(1, 0) \o <<153, 14, 236, 17>>,
     Header(1, 0) \o <<153>> \o Pattern(249, 9),
     Header(1, 0) \o <<153>> \o Pattern(250, 9)}

Reading(b, fill, tail, damage, complete) ==
    [payload |-> b, fill |-> fill, tail |-> tail, damage |-> damage,
     complete |-> complete]

Readings ==
    {Reading(b, fill, tail, "none", complete) :
        b \in FramePayloads \cup EthPayloads \cup ShortPayloads,
        fill \in 0..MaxFiller, tail \in BOOLEAN, complete \in BOOLEAN}
    \cup
    {Reading(b, fill, tail, damage, FALSE) :
        b \in ShortPayloads, fill \in 0..MaxFiller, tail \in BOOLEAN,
        damage \in {"empty", "indicator", "terminator", "length"}}
    \cup
    {Reading(b, 1, TRUE, "none", FALSE) : b \in SubPayloads}

\* ------------------------------------------------------ the state machine

Init ==
    \E r \in Readings :
        /\ device = [payload |-> r.payload, fill |-> r.fill, tail |-> r.tail,
                     damage |-> r.damage]
        /\ rawData = Scan(r.payload, r.fill, r.tail, r.damage)
        /\ multipartComplete = r.complete
        /\ networks = NetworkTable
        /\ pc = "scanned"
        /\ bytes = <<>>
        /\ data = EMPTY_DATA
        /\ error = NO_MESSAGE
        /\ console = <<>>
        /\ blake2bCalls = 0

\* The caller strips the scanned string; null is an unparseable scan.
RawDataToU8A ==
    /\ pc = "scanned"
    /\ LET r == rawDataToU8A(rawData)
       IN  IF r[1] = "null"
           THEN pc' = "unparseable" /\ bytes' = <<>>
           ELSE pc' = "stripped" /\ bytes' = r[2]
    /\ UNCHANGED <<device, rawData, multipartComplete, networks, data, error,
                   console, blake2bCalls>>

\* constructDataFromBytes runs to its return, its throw or its await.
ConstructDataFromBytes ==
    /\ pc = "stripped"
    /\ LET o == Construct(bytes, multipartComplete, networks)
       IN  /\ pc' = o.pc
           /\ data' = o.data
           /\ error' = o.error
           /\ console' = console \o o.console
           /\ blake2bCalls' = blake2bCalls + (IF o.pc = "awaitBlake2b" THEN 1 ELSE 0)
    /\ UNCHANGED <<device, rawData, multipartComplete, networks, bytes>>

\* blake2b resolves: the hash becomes the data, the address is encoded.
Blake2bResolves ==
    /\ pc = "awaitBlake2b"
    /\ LET uos == uosAfterFrames(bytes)
           hash == blake2b(u8aToHexNoPrefix(payloadAfterCompact(rawPayload(uos)[2])))
           o == SubstrateAfterHash(uos, networks, data, hash)
       IN  /\ pc' = o.pc
           /\ data' = o.data
           /\ error' = o.error
           /\ console' = console \o o.console
    /\ UNCHANGED <<device, rawData, multipartComplete, networks, bytes,
                   blake2bCalls>>

\* blake2b rejects: the inner catch logs it and throws.
Blake2bRejects ==
    /\ pc = "awaitBlake2b"
    /\ LET o == SubstrateCatch(<<>>, "blake2b rejected")
       IN  /\ pc' = o.pc
           /\ data' = o.data
           /\ error' = o.error
           /\ console' = console \o o.console
    /\ UNCHANGED <<device, rawData, multipartComplete, networks, bytes,
                   blake2bCalls>>

Next ==
    \/ RawDataToU8A
    \/ ConstructDataFromBytes
    \/ Blake2bResolves
    \/ Blake2bRejects

Spec == Init /\ [][Next]_vars

\* ------------------------------------------------------------- the claims

\* The decode has gone through constructDataFromBytes, up to its end or to
\* its await.
Constructed == pc \in {"returned", "thrown", "awaitBlake2b"}

\* The big-endian value of two bytes.
BE16(hi, lo) == hi * 256 + lo

\* The header fields of the stripped payload (of at least 5 bytes).
HeaderFrameCount == BE16(bytes[2], bytes[3])
HeaderCurrentFrame == BE16(bytes[4], bytes[5])

\* The bytes after the 5-byte header reach dispatch with this discriminator.
Dispatched(discriminator) ==
    /\ Constructed
    /\ Len(bytes) >= 6
    /\ bytes[6] = discriminator
    /\ HeaderFrameCount <= 50
    /\ (HeaderFrameCount <= 1 \/ multipartComplete)

\* A complete Substrate payload: '53', crypto, command, public key, a signing
\* payload, specVersion and genesis hash.
CompleteSubstrate == Dispatched(83) /\ Len(bytes) >= 5 + 3 + 32 + 4 + 32
CommandByte == bytes[8]
SigningPayloadBytes == SubSeq(bytes, 41, Len(bytes) - 36)
SpecVersionField == SubSeq(bytes, Len(bytes) - 35, Len(bytes) - 32)
GenesisHashBytes == SubSeq(bytes, Len(bytes) - 31, Len(bytes))
CallData == SliceFrom(SigningPayloadBytes, compactOffset(SigningPayloadBytes))

\* C1: a scan that is the encoding of the bytes b ('4', the length prefix,
\* the hex of b, '0', then 'ec11' any number of times and at most one 'ec')
\* is stripped to exactly b, never to null.
C1_RoundTrip ==
    (pc # "scanned" /\ rawData = Encode(device.payload, device.fill, device.tail))
        => (pc # "unparseable" /\ bytes = device.payload)

\* C1's case: 256 bytes (a two-byte length prefix) under the longest filler.
C1_Witness ==
    /\ pc = "stripped"
    /\ device.damage = "none"
    /\ device.fill >= 2
    /\ device.tail
    /\ Len(bytes) = 256
    /\ bytes = device.payload

\* C2: for SIGN_MORTAL / SIGN_IMMORTAL, oversized and isHash are exactly
\* 'the signing payload (after the public key, before specVersion and the
\* genesis hash) is longer than 256 bytes'.
C2_OversizedExact ==
    (pc = "returned" /\ CompleteSubstrate /\ data.type = "substrate"
        /\ CommandByte \in {0, 2})
        => /\ data.oversized = Bool(Len(SigningPayloadBytes) > 256)
           /\ data.isHash = Bool(Len(SigningPayloadBytes) > 256)

\* C3: a complete Substrate payload whose genesis hash is not in the
\* networks table fails with the UnknownNetwork error, not with another one.
C3_UnknownNetwork ==
    (CompleteSubstrate /\ u8aToHex(GenesisHashBytes) \notin DOMAIN networks)
        => (pc = "thrown" /\ error = ERROR_NO_NETWORK)

\* C4: a returned Ethereum or Substrate result has its action (SignData or
\* SignTransaction), its account and its data assigned.
C4_FullyPopulated ==
    (pc = "returned" /\ data.type \in {"ethereum", "substrate"})
        => /\ data.action[1] = "literal"
           /\ data.action[2] \in {"signData", "signTransaction"}
           /\ data.account[1] # "undefined"
           /\ (data.data[1] # "undefined" \/ data.rlp[1] # "undefined")

\* C5: a frameCount above 50 in bytes 1..2 always fails with MalformedFrame.
C5_FrameCeiling ==
    (Constructed /\ Len(bytes) >= 5 /\ HeaderFrameCount > 50)
        => (pc = "thrown" /\ error = ERROR_WRONG_RAW /\ data = EMPTY_DATA)

\* C5's case: 300 frames, the caller saying the multipart is complete.
C5_Witness ==
    /\ pc = "thrown"
    /\ error = ERROR_WRONG_RAW
    /\ Len(bytes) >= 5
    /\ HeaderFrameCount = 300
    /\ multipartComplete

\* C6: frameCount <= 1 never yields a PartialAssembly; frameCount in 2..50
\* with multipartComplete = false always yields the PartialAssembly of the
\* header's frameCount and currentFrame and of the bytes after the header;
\* multipartComplete = true never yields one.
C6_PartialClassification ==
    Constructed =>
        /\ (Len(bytes) >= 5 /\ HeaderFrameCount <= 1) => data.type # "multipart"
        /\ (Len(bytes) >= 5 /\ HeaderFrameCount \in 2..50 /\ ~multipartComplete)
               => /\ pc = "returned"
                  /\ data.type = "multipart"
                  /\ data.frameCount = Num(HeaderFrameCount)
                  /\ data.currentFrame = Num(HeaderCurrentFrame)
                  /\ data.partData = Str(HexDigits(SubSeq(bytes, 6, Len(bytes))))
        /\ multipartComplete => data.type # "multipart"

\* C6's case: frame 7 of 50, of a payload type the dispatch does not know.
C6_Witness ==
    /\ pc = "returned"
    /\ data.type = "multipart"
    /\ HeaderFrameCount = 50
    /\ HeaderCurrentFrame = 7
    /\ Len(bytes) = 6
    /\ bytes[6] = 153

\* MalformedAction: the empty Error thrown where no action was determined.
MalformedAction ==
    pc = "thrown" /\ error = NO_MESSAGE /\ console = <<ERROR_NO_ACTION>>
        /\ data = EMPTY_DATA

\* C7: an Ethereum action byte of 0x00 or 0x01 yields SignData, any other
\* fails with MalformedAction; no Ethereum result has SignTransaction.
C7_EthereumAction ==
    /\ Dispatched(69) =>
           IF Len(bytes) >= 7 /\ bytes[7] \in {0, 1}
           THEN /\ pc = "returned"
                /\ data.type = "ethereum"
                /\ data.action = Sym("signData")
           ELSE MalformedAction
    /\ data.type = "ethereum" => data.action # Sym("signTransaction")
    /\ MalformedAction => Dispatched(69)

\* C7's case: the action byte 0x01.
C7_Witness ==
    /\ Dispatched(69)
    /\ Len(bytes) >= 7
    /\ bytes[7] = 1
    /\ pc = "returned"
    /\ data.action = Sym("signData")

\* C8: a decoded Ethereum result's account is the 22-byte address field and
\* its payload field holds all the bytes after the address field.
C8_EthereumFields ==
    (pc = "returned" /\ data.type = "ethereum")
        => LET rest == SubSeq(bytes, 30, Len(bytes))
               field == IF data.action = Sym("signTransaction")
                        THEN data.data ELSE data.rlp
           IN  /\ data.account = Str(HexDigits(SubSeq(bytes, 8, 29)))
               /\ \/ field = Str(HexDigits(rest))
                  \/ field = U8a(rest)

\* C9: for SIGN_MORTAL / SIGN_IMMORTAL on a known network, data is the hash
\* of the call data (the signing payload without its compact prefix) when
\* oversized, blake2b being called exactly once, and the call data itself
\* when not, blake2b not being called.
C9_MortalData ==
    (pc = "returned" /\ CompleteSubstrate /\ data.type = "substrate"
        /\ CommandByte \in {0, 2})
        => IF data.oversized = Bool(TRUE)
           THEN data.data = blake2b(HexDigits(CallData)) /\ blake2bCalls = 1
           ELSE data.data = U8a(CallData) /\ blake2bCalls = 0

\* The 32-bit value of four bytes, either byte order.
U32BE(b) == ((b[1] * 256 + b[2]) * 256 + b[3]) * 256 + b[4]
U32LE(b) == ((b[4] * 256 + b[3]) * 256 + b[2]) * 256 + b[1]

\* C10: a decoded Substrate result's specVersion is the integer of the 4
\* bytes before the genesis hash, never not-a-number, and its genesisHash
\* is the hex of the last 32 bytes.
C10_SpecVersionAndGenesis ==
    (pc = "returned" /\ CompleteSubstrate /\ data.type = "substrate")
        => /\ data.specVersion[1] = "number"
           /\ data.specVersion[2] # NaN
           /\ data.specVersion[2] \in {U32BE(SpecVersionField), U32LE(SpecVersionField)}
           /\ data.genesisHash = Str(u8aToHex(GenesisHashBytes))

====
